---- MODULE Spec2Model ----
(***************************************************************************)
(* SelectCite background service worker (src/js/background.js).            *)
(*                                                                         *)
(* A user action is a context-menu click.  The click listener either       *)
(* ignores it or invokes selectcite.searchForBibTex, an async function     *)
(* whose code between two awaits runs atomically.  One action of the model *)
(* is the settling of one awaited collaborator call (fetch, body read,     *)
(* chrome.tabs.create) together with all code that runs up to the next     *)
(* await.                                                                  *)
(*                                                                         *)
(* Text is a sequence of atoms.  An atom is one whitespace character, one  *)
(* reserved character, the marker "#f", or a run of unreserved characters. *)
(* URLs and notification messages are rendered to strings with Join.       *)
(*                                                                         *)
(* mode selects the inputs the environment draws from: "solo" one user     *)
(* action with the full input sets, "conc" MaxFlows concurrent user        *)
(* actions with small input sets, "live" one user action with few          *)
(* selections and the full response bodies, "simplified" one user action   *)
(* handled by the simplified variant of the worker (the second script of   *)
(* the file), which has its own next-state relation.                       *)
(***************************************************************************)
EXTENDS Naturals, Sequences, FiniteSets, TLC

VARIABLES flow, mode

vars == <<flow, mode>>

\* ---------------------------------------------------------------- bounds
MaxLen == 3
MaxEntries == 2
MaxFlows == 2

Slots == 1..MaxFlows

\* ---------------------------------------------------------------- text
Whitespace == {" "}

\* the atoms of s written one after the other
RECURSIVE Join(_)
Join(s) == IF s = <<>> THEN "" ELSE Head(s) \o Join(Tail(s))

\* s without the whitespace atoms it starts with
RECURSIVE TrimStart(_)
TrimStart(s) ==
  IF s # <<>> /\ Head(s) \in Whitespace THEN TrimStart(Tail(s)) ELSE s

\* s without the whitespace atoms it ends with
RECURSIVE TrimEnd(_)
TrimEnd(s) ==
  IF s # <<>> /\ s[Len(s)] \in Whitespace
  THEN TrimEnd(SubSeq(s, 1, Len(s) - 1))
  ELSE s

\* String.prototype.trim
Trim(s) == TrimEnd(TrimStart(s))

\* String.prototype.replace(/\s+/g, r): every maximal whitespace run becomes r
RECURSIVE ReplaceWhitespaceRuns(_, _)
ReplaceWhitespaceRuns(s, r) ==
  IF s = <<>> THEN <<>>
  ELSE IF Head(s) \in Whitespace
       THEN <<r>> \o ReplaceWhitespaceRuns(TrimStart(s), r)
       ELSE <<Head(s)>> \o ReplaceWhitespaceRuns(Tail(s), r)

\* encodeURIComponent on one atom: unreserved runs are kept, the rest escaped
EncodeAtom(c) ==
  CASE c = " " -> "%20"
    [] c = "+" -> "%2B"
    [] c = "&" -> "%26"
    [] OTHER -> c

\* encodeURIComponent
encodeURIComponent(s) == [k \in 1..Len(s) |-> EncodeAtom(s[k])]

\* String.prototype.replace(m, '') with a string pattern: first occurrence only
RECURSIVE ReplaceFirst(_, _)
ReplaceFirst(s, m) ==
  IF s = <<>> THEN <<>>
  ELSE IF Head(s) = m THEN Tail(s)
       ELSE <<Head(s)>> \o ReplaceFirst(Tail(s), m)

\* ---------------------------------------------------------------- URLs
MenuId == "selectcite-search"

SearchUrl(cleanKeyword) ==
  "https://scholar.google.com/scholar?oi=gsb95&output=gsb&hl=en&q="
    \o Join(encodeURIComponent(cleanKeyword))

CiteUrl(paperId) ==
  "https://scholar.google.com/scholar?output=gsb-cite&hl=en&q=info:"
    \o Join(paperId) \o ":scholar.google.com/"

ScholarUrl(searchTerm) ==
  "https://scholar.google.com/scholar?hl=en&q="
    \o Join(encodeURIComponent(searchTerm))

\* ---------------------------------------------------------------- notifications
FallbackNotification(keyword) ==
  [title |-> "SelectCite",
   message |-> "Found search results for: \"" \o Join(keyword)
               \o "\"\nPlease click \"Cite\" then \"BibTeX\" manually."]

SuccessNotification ==
  [title |-> "SelectCite Success!",
   message |-> "BibTeX citation page opened! Copy the citation from the new tab."]

CitePageNotification ==
  [title |-> "SelectCite",
   message |-> "Citation page opened. Please click on \"BibTeX\" link."]

ErrorNotification ==
  [title |-> "SelectCite Error",
   message |-> "Sorry, unable to search for citations. Please try again or search manually on Google Scholar."]

\* ---------------------------------------------------------------- inputs
\* info argument of the context-menu listener; present = FALSE is an
\* undefined selectionText
NoInfo == [menuItemId |-> "", present |-> FALSE, selectionText |-> <<>>]

SelectionAtoms == {"A", " ", "&"}

ExampleSelection ==
  <<"Attention", " ", "Is", " ", "All", " ", "You", " ", "Need">>

BoundedSeqs(S, n) == UNION {[1..k -> S] : k \in 0..n}

SoloSelections == BoundedSeqs(SelectionAtoms, MaxLen) \cup {ExampleSelection}

ConcSelections == {<<"A">>, <<"A", " ", "&">>}

LiveSelections == {<<"A">>, <<"&">>}

Infos(m) ==
  IF m = "solo"
  THEN [menuItemId : {MenuId, "other-item"}, present : {TRUE},
        selectionText : SoloSelections]
       \cup [menuItemId : {MenuId, "other-item"}, present : {FALSE},
             selectionText : {<<>>}]
  ELSE [menuItemId : {MenuId}, present : {TRUE},
        selectionText : IF m = "conc" THEN ConcSelections ELSE LiveSelections]

\* Body of the search response, described by what each regular expression of
\* extractPaperIdFromResponse finds in it:
\*   assign   - capture of /window\.googleSearchResponse\s*=\s*({.*?});/ :
\*              "none" no match, "malformed" JSON.parse of the capture throws
\*              (or r[0].l.f.u is truthy but has no replace method),
\*              "nopath" it parses but r[0].l.f.u is missing or falsy,
\*              "id" it parses and r[0].l.f.u is the non-empty string u
\*   rArray   - /"r":\s*\[({.*?})\]/ matches
\*   dataClk  - /data-clk="([^"]*)"/ matches
\*   dataHref - capture of /data-href="\/scholar\?q=info:([^:]+):.../, <<>> none
\*   citeLink - capture of /\/scholar\?q=info:([^:]+):scholar\.google\.com/
\*              outside a data-href attribute, <<>> none
NoSearchBody ==
  [assign |-> "none", u |-> <<>>, rArray |-> FALSE, dataClk |-> FALSE,
   dataHref |-> <<>>, citeLink |-> <<>>]

AssignIds == {<<"x">>, <<"x", "#f">>, <<"x", "#f", "y", "#f">>}

SoloSearchBodies ==
  [assign : {"none", "malformed", "nopath"}, u : {<<>>},
   rArray : BOOLEAN, dataClk : BOOLEAN,
   dataHref : {<<>>, <<"h">>}, citeLink : {<<>>, <<"c">>}]
  \cup
  [assign : {"id"}, u : AssignIds,
   rArray : BOOLEAN, dataClk : BOOLEAN,
   dataHref : {<<>>, <<"h">>}, citeLink : {<<>>, <<"c">>}]

ConcSearchBodies ==
  {NoSearchBody, [NoSearchBody EXCEPT !.dataHref = <<"h">>]}

SearchBodies(m) == IF m = "conc" THEN ConcSearchBodies ELSE SoloSearchBodies

\* Body of the citation response:
\*   json   - JSON.parse succeeds
\*   i      - the list citeData.i of entries [l label, u URL] (<<>> if absent)
\*   anchor - capture of /href="([^"]*)"[^>]*>BibTeX<\/a>/ on the raw text,
\*            "" no match
NoCiteBody == [json |-> FALSE, i |-> <<>>, anchor |-> ""]

Entries ==
  {[l |-> "BibTeX", u |-> "https://scholar.googleusercontent.com/scholar.bib"],
   [l |-> "EndNote", u |-> "https://scholar.googleusercontent.com/scholar.enw"]}

Anchors == {"", "https://scholar.googleusercontent.com/anchor.bib"}

SoloCiteBodies ==
  [json : {TRUE}, i : BoundedSeqs(Entries, MaxEntries), anchor : Anchors]
  \cup [json : {FALSE}, i : {<<>>}, anchor : Anchors]

ConcCiteBodies ==
  [json : {TRUE}, i : {<<e>> : e \in Entries}, anchor : {""}]
  \cup [json : {FALSE}, i : {<<>>}, anchor : Anchors]

CiteBodies(m) == IF m = "conc" THEN ConcCiteBodies ELSE SoloCiteBodies

\* ---------------------------------------------------------------- extraction
\* what the body of extractPaperIdFromResponse ends with: return null,
\* return a string, or an exception thrown inside its try block
NullId == [isNull |-> TRUE, id |-> <<>>, threw |-> FALSE]

StringId(id) == [isNull |-> FALSE, id |-> id, threw |-> FALSE]

Thrown == [isNull |-> FALSE, id |-> <<>>, threw |-> TRUE]

NumPatterns == 4

PatternMatches(body, p) ==
  CASE p = 1 -> body.assign # "none"
    [] p = 2 -> body.rArray
    [] p = 3 -> body.dataClk
    [] p = 4 -> body.dataHref # <<>>

\* the cite-link scan after the loop
CiteMatch(body) ==
  IF body.citeLink # <<>> THEN StringId(body.citeLink) ELSE NullId

\* the for loop over patterns, from pattern p on
RECURSIVE PatternLoop(_, _)
PatternLoop(body, p) ==
  IF p > NumPatterns THEN CiteMatch(body)
  ELSE IF ~PatternMatches(body, p) THEN PatternLoop(body, p + 1)
  ELSE IF p = 1
       THEN IF body.assign = "malformed" THEN Thrown
            ELSE IF body.assign = "id" /\ body.u # <<>>
                 THEN StringId(ReplaceFirst(body.u, "#f"))
                 ELSE PatternLoop(body, p + 1)
  ELSE IF p = 4 THEN StringId(body.dataHref)
  ELSE PatternLoop(body, p + 1)

\* extractPaperIdFromResponse without its try/catch
extractPaperIdFromResponseNoCatch(responseText) == PatternLoop(responseText, 1)

\* the try block is the loop and the scan; the catch block returns null
extractPaperIdFromResponse(responseText) ==
  LET outcome == PatternLoop(responseText, 1)
  IN IF outcome.threw THEN NullId ELSE outcome

\* ---------------------------------------------------------------- one user action
\* The state of one context-menu click and of the searchForBibTex call it
\* makes:
\*   pc      - "idle" not clicked yet, "ignored" the listener returned without
\*             calling searchForBibTex, "await..." suspended at an await,
\*             "done" the promise of searchForBibTex is settled
\*   result  - state of the promise returned by searchForBibTex
\*   req     - URL of the chrome.tabs.create call being awaited
\*   opens   - settled chrome.tabs.create calls, ok = TRUE when the tab opened
\*   fetches - URLs passed to fetch
\*   notifs  - options passed to chrome.notifications.create
\* the remaining fields are the locals of the call and the collaborators'
\* answers it received
IdleFlow ==
  [pc |-> "idle", info |-> NoInfo, result |-> "none",
   keyword |-> <<>>, cleanKeyword |-> <<>>,
   searchStatus |-> "none", searchRead |-> "none", searchText |-> NoSearchBody,
   paperId |-> <<>>,
   citeStatus |-> "none", citeRead |-> "none", citeText |-> NoCiteBody,
   req |-> "", opens |-> <<>>, fetches |-> <<>>, notifs |-> <<>>]

Fetch(s, url) == [s EXCEPT !.fetches = Append(@, url)]

TabsCreate(s, url) == [s EXCEPT !.req = url]

TabSettled(s, ok) ==
  [s EXCEPT !.opens = Append(@, [url |-> s.req, ok |-> ok]), !.req = ""]

NotificationsCreate(s, n) == [s EXCEPT !.notifs = Append(@, n)]

Settle(s, r) == [s EXCEPT !.pc = "done", !.result = r]

\* openScholarSearch reading the term from a field shared by all invocations,
\* which holds the cleaned keyword of the most recent click
openScholarSearchShared(s, searchTerm) ==
  LET last == CHOOSE f \in Slots :
                /\ flow[f].pc # "idle" \/ f = 1
                /\ \A g \in Slots : g > f => flow[g].pc = "idle"
  IN TabsCreate(s, ScholarUrl(flow[last].cleanKeyword))

openScholarSearch(s, searchTerm) == TabsCreate(s, ScholarUrl(searchTerm))

showErrorNotification(s) == NotificationsCreate(s, ErrorNotification)

\* catch block of searchForBibTex, up to its await
searchForBibTexCatch(s) ==
  [openScholarSearch(s, ReplaceWhitespaceRuns(Trim(s.keyword), "+"))
     EXCEPT !.pc = "awaitCatchTab"]

\* searchForBibTex from its entry to the await of fetch(searchUrl)
searchForBibTex(s, keyword) ==
  IF keyword = <<>>
  THEN Settle(s, "fulfilled")
  ELSE LET cleanKeyword == ReplaceWhitespaceRuns(Trim(keyword), "+")
       IN [Fetch(s, SearchUrl(cleanKeyword))
             EXCEPT !.keyword = keyword, !.cleanKeyword = cleanKeyword,
                    !.result = "pending", !.pc = "awaitSearch"]

\* onClicked without the trim and the length test on the selection
onClickedUntrimmed(s, info) ==
  LET t == [s EXCEPT !.info = info]
  IN IF info.menuItemId = MenuId /\ info.present /\ info.selectionText # <<>>
     THEN searchForBibTex(t, info.selectionText)
     ELSE [t EXCEPT !.pc = "ignored"]

\* chrome.contextMenus.onClicked listener
onClicked(s, info) ==
  LET t == [s EXCEPT !.info = info]
  IN IF info.menuItemId = MenuId /\ info.present /\ info.selectionText # <<>>
     THEN LET selectedText == Trim(info.selectionText)
          IN IF Len(selectedText) > 0
             THEN searchForBibTex(t, selectedText)
             ELSE [t EXCEPT !.pc = "ignored"]
     ELSE [t EXCEPT !.pc = "ignored"]

\* getBibTexFromPaperId from its entry to the await of fetch(citeUrl)
getBibTexFromPaperId(s, paperId) ==
  [Fetch(s, CiteUrl(paperId)) EXCEPT !.paperId = paperId, !.pc = "awaitCiteFetch"]

\* AfterSearchFetch without the test of searchResponse.ok
AfterSearchFetchNoOkCheck(s, status) ==
  LET t == [s EXCEPT !.searchStatus = status]
  IN IF status # "reject" THEN [t EXCEPT !.pc = "awaitSearchText"]
     ELSE searchForBibTexCatch(t)

\* fetch(searchUrl) settled: status is "reject", "notok" or "ok"
AfterSearchFetch(s, status) ==
  LET t == [s EXCEPT !.searchStatus = status]
  IN IF status = "ok" THEN [t EXCEPT !.pc = "awaitSearchText"]
     ELSE searchForBibTexCatch(t)

\* searchResponse.text() settled: read is "reject" or "ok"
AfterSearchText(s, read, body) ==
  LET t == [s EXCEPT !.searchRead = read, !.searchText = body]
      paperId == extractPaperIdFromResponse(body)
  IN IF read # "ok" \/ paperId.threw THEN searchForBibTexCatch(t)
     ELSE IF ~paperId.isNull /\ paperId.id # <<>>
          THEN getBibTexFromPaperId(t, paperId.id)
          ELSE [openScholarSearch(t, t.cleanKeyword)
                  EXCEPT !.pc = "awaitFallbackTab"]

\* AfterFallbackTab creating the notification before the tab has settled
AfterFallbackTabNotifyFirst(s, ok) ==
  LET t == NotificationsCreate(TabSettled(s, ok), FallbackNotification(s.keyword))
  IN IF ok THEN Settle(t, "fulfilled") ELSE searchForBibTexCatch(t)

\* the tab of the not-found fallback settled
AfterFallbackTab(s, ok) ==
  LET t == TabSettled(s, ok)
  IN IF ok
     THEN Settle(NotificationsCreate(t, FallbackNotification(t.keyword)),
                 "fulfilled")
     ELSE searchForBibTexCatch(t)

\* AfterCiteFetch that waits for a retry nobody schedules on a failed request
AfterCiteFetchRetry(s, status) ==
  LET t == [s EXCEPT !.citeStatus = status]
  IN IF status = "ok" THEN [t EXCEPT !.pc = "awaitCiteText"]
     ELSE [t EXCEPT !.pc = "awaitRetry"]

\* fetch(citeUrl) settled
AfterCiteFetch(s, status) ==
  LET t == [s EXCEPT !.citeStatus = status]
  IN IF status = "ok" THEN [t EXCEPT !.pc = "awaitCiteText"]
     ELSE searchForBibTexCatch(t)

\* the statements after the inner try/catch of getBibTexFromPaperId
OpenCitePage(s) ==
  [TabsCreate(s, CiteUrl(s.paperId)) EXCEPT !.pc = "awaitCiteTab"]

\* HtmlParsing that throws when no anchor matches
HtmlParsingThrows(s) ==
  IF s.citeText.anchor # ""
  THEN [TabsCreate(s, s.citeText.anchor) EXCEPT !.pc = "awaitHtmlTab"]
  ELSE searchForBibTexCatch(s)

\* the inner catch (parseError) block of getBibTexFromPaperId
HtmlParsing(s) ==
  IF s.citeText.anchor # ""
  THEN [TabsCreate(s, s.citeText.anchor) EXCEPT !.pc = "awaitHtmlTab"]
  ELSE OpenCitePage(s)

\* the inner try block of getBibTexFromPaperId
JsonParsing(s) ==
  LET citeData == s.citeText
  IN IF ~citeData.json THEN HtmlParsing(s)
     ELSE IF citeData.i # <<>> /\ citeData.i[1].l = "BibTeX"
          THEN [TabsCreate(s, citeData.i[1].u) EXCEPT !.pc = "awaitJsonTab"]
          ELSE OpenCitePage(s)

\* citeResponse.text() settled
AfterCiteText(s, read, body) ==
  LET t == [s EXCEPT !.citeRead = read, !.citeText = body]
  IN IF read # "ok" THEN searchForBibTexCatch(t) ELSE JsonParsing(t)

\* AfterJsonTab without the return after the success notification
AfterJsonTabNoReturn(s, ok) ==
  LET t == TabSettled(s, ok)
  IN IF ok
     THEN OpenCitePage(NotificationsCreate(t, SuccessNotification))
     ELSE HtmlParsing(t)

\* the tab of the JSON BibTeX URL settled; a rejection is thrown inside the
\* inner try and lands in the parseError catch
AfterJsonTab(s, ok) ==
  LET t == TabSettled(s, ok)
  IN IF ok
     THEN Settle(NotificationsCreate(t, SuccessNotification), "fulfilled")
     ELSE HtmlParsing(t)

\* the tab of the anchor's href settled
AfterHtmlTab(s, ok) ==
  LET t == TabSettled(s, ok)
  IN IF ok
     THEN Settle(NotificationsCreate(t, SuccessNotification), "fulfilled")
     ELSE searchForBibTexCatch(t)

\* the tab of the citation page settled
AfterCiteTab(s, ok) ==
  LET t == TabSettled(s, ok)
  IN IF ok
     THEN Settle(NotificationsCreate(t, CitePageNotification), "fulfilled")
     ELSE searchForBibTexCatch(t)

\* the tab opened by the catch block of searchForBibTex settled; a rejection
\* is rethrown by openScholarSearch and leaves searchForBibTex
AfterCatchTab(s, ok) ==
  LET t == TabSettled(s, ok)
  IN IF ok THEN Settle(showErrorNotification(t), "fulfilled")
     ELSE Settle(t, "rejected")

\* ---------------------------------------------------------------- actions
FetchStatuses == {"reject", "notok", "ok"}

ReadStatuses == {"reject", "ok"}

Update(f, s) == flow' = [flow EXCEPT ![f] = s] /\ UNCHANGED mode

\* clicks take the slots in order; only the conc mode has more than one user
\* action
Click(f) ==
  /\ flow[f].pc = "idle"
  /\ \A g \in Slots : g < f => flow[g].pc # "idle"
  /\ mode # "conc" => f = 1
  /\ \E info \in Infos(mode) : Update(f, onClicked(flow[f], info))

SearchFetchSettles(f) ==
  /\ flow[f].pc = "awaitSearch"
  /\ \E status \in FetchStatuses : Update(f, AfterSearchFetch(flow[f], status))

SearchTextSettles(f) ==
  /\ flow[f].pc = "awaitSearchText"
  /\ \E read \in ReadStatuses :
       \E body \in (IF read = "ok" THEN SearchBodies(mode) ELSE {NoSearchBody}) :
          Update(f, AfterSearchText(flow[f], read, body))

FallbackTabSettles(f) ==
  /\ flow[f].pc = "awaitFallbackTab"
  /\ \E ok \in BOOLEAN : Update(f, AfterFallbackTab(flow[f], ok))

CiteFetchSettles(f) ==
  /\ flow[f].pc = "awaitCiteFetch"
  /\ \E status \in FetchStatuses : Update(f, AfterCiteFetch(flow[f], status))

CiteTextSettles(f) ==
  /\ flow[f].pc = "awaitCiteText"
  /\ \E read \in ReadStatuses :
       \E body \in (IF read = "ok" THEN CiteBodies(mode) ELSE {NoCiteBody}) :
          Update(f, AfterCiteText(flow[f], read, body))

JsonTabSettles(f) ==
  /\ flow[f].pc = "awaitJsonTab"
  /\ \E ok \in BOOLEAN : Update(f, AfterJsonTab(flow[f], ok))

HtmlTabSettles(f) ==
  /\ flow[f].pc = "awaitHtmlTab"
  /\ \E ok \in BOOLEAN : Update(f, AfterHtmlTab(flow[f], ok))

CiteTabSettles(f) ==
  /\ flow[f].pc = "awaitCiteTab"
  /\ \E ok \in BOOLEAN : Update(f, AfterCiteTab(flow[f], ok))

CatchTabSettles(f) ==
  /\ flow[f].pc = "awaitCatchTab"
  /\ \E ok \in BOOLEAN : Update(f, AfterCatchTab(flow[f], ok))

\* the continuation of flow f that runs when its awaited call settles
Resume(f) ==
  \/ SearchFetchSettles(f)
  \/ SearchTextSettles(f)
  \/ FallbackTabSettles(f)
  \/ CiteFetchSettles(f)
  \/ CiteTextSettles(f)
  \/ JsonTabSettles(f)
  \/ HtmlTabSettles(f)
  \/ CiteTabSettles(f)
  \/ CatchTabSettles(f)

Init ==
  /\ flow = [f \in Slots |-> IdleFlow]
  /\ mode = "solo"

ConcInit ==
  /\ flow = [f \in Slots |-> IdleFlow]
  /\ mode = "conc"

LiveInit ==
  /\ flow = [f \in Slots |-> IdleFlow]
  /\ mode = "live"

Next ==
  \/ \E f \in Slots : Click(f)
  \/ \E f \in Slots : SearchFetchSettles(f)
  \/ \E f \in Slots : SearchTextSettles(f)
  \/ \E f \in Slots : FallbackTabSettles(f)
  \/ \E f \in Slots : CiteFetchSettles(f)
  \/ \E f \in Slots : CiteTextSettles(f)
  \/ \E f \in Slots : JsonTabSettles(f)
  \/ \E f \in Slots : HtmlTabSettles(f)
  \/ \E f \in Slots : CiteTabSettles(f)
  \/ \E f \in Slots : CatchTabSettles(f)

Spec == Init /\ [][Next]_vars

ConcSpec == ConcInit /\ [][Next]_vars

\* every awaited collaborator call eventually resolves or rejects
LiveSpec == LiveInit /\ [][Next]_vars /\ \A f \in Slots : WF_vars(Resume(f))

\* ---------------------------------------------------------------- simplified variant
\* the second script of background.js: searchForBibTex opens the plain search
\* and nothing else

\* length of the keyword shown in full by the notification
MaxShown == 50

\* String.prototype.length
RECURSIVE length(_)
length(s) == IF s = <<>> THEN 0 ELSE Len(Head(s)) + length(Tail(s))

\* String.prototype.substring(0, n)
RECURSIVE substring(_, _)
substring(s, n) ==
  IF s = <<>> \/ n = 0 THEN <<>>
  ELSE IF Len(Head(s)) <= n
       THEN <<Head(s)>> \o substring(Tail(s), n - Len(Head(s)))
       ELSE <<SubSeq(Head(s), 1, n)>>

SimplifiedNotification(cleanKeyword) ==
  [title |-> "SelectCite",
   message |-> "Searching for: \""
               \o Join(IF length(cleanKeyword) > MaxShown
                       THEN substring(cleanKeyword, MaxShown) \o <<"...">>
                       ELSE cleanKeyword)
               \o "\"\nClick \"Cite\" then \"BibTeX\" for the paper you need."]

\* a selection longer than MaxShown characters
LongSelection ==
  [k \in 1..(MaxShown + 2) |-> IF k = MaxShown + 1 THEN " " ELSE "A"]

SpacedSelection == <<" ", "A", " ", " ", "&", " ">>

SimplifiedSelections == SoloSelections \cup {LongSelection, SpacedSelection}

SimplifiedInfos ==
  [menuItemId : {MenuId, "other-item"}, present : {TRUE},
   selectionText : SimplifiedSelections]
  \cup [menuItemId : {MenuId, "other-item"}, present : {FALSE},
        selectionText : {<<>>}]

openScholarSearchSimplified(s, searchTerm) ==
  TabsCreate(s, ScholarUrl(searchTerm))

showErrorNotificationSimplified(s) == NotificationsCreate(s, ErrorNotification)

\* simplified searchForBibTex joining the words with '+' as the deep variant
searchForBibTexSimplifiedPlus(s, keyword) ==
  IF keyword = <<>>
  THEN Settle(s, "fulfilled")
  ELSE LET cleanKeyword == ReplaceWhitespaceRuns(Trim(keyword), "+")
       IN [openScholarSearchSimplified(s, cleanKeyword)
             EXCEPT !.keyword = keyword, !.cleanKeyword = cleanKeyword,
                    !.result = "pending", !.pc = "awaitSimplifiedTab"]

\* simplified searchForBibTex from its entry to the await of openScholarSearch
searchForBibTexSimplified(s, keyword) ==
  IF keyword = <<>>
  THEN Settle(s, "fulfilled")
  ELSE LET cleanKeyword == ReplaceWhitespaceRuns(Trim(keyword), " ")
       IN [openScholarSearchSimplified(s, cleanKeyword)
             EXCEPT !.keyword = keyword, !.cleanKeyword = cleanKeyword,
                    !.result = "pending", !.pc = "awaitSimplifiedTab"]

\* chrome.contextMenus.onClicked listener of the simplified variant
onClickedSimplified(s, info) ==
  LET t == [s EXCEPT !.info = info]
  IN IF info.menuItemId = MenuId /\ info.present /\ info.selectionText # <<>>
     THEN LET selectedText == Trim(info.selectionText)
          IN IF Len(selectedText) > 0
             THEN searchForBibTexSimplified(t, selectedText)
             ELSE [t EXCEPT !.pc = "ignored"]
     ELSE [t EXCEPT !.pc = "ignored"]

\* the tab of the simplified searchForBibTex settled; a rejection is rethrown
\* by openScholarSearch and caught by searchForBibTex
AfterSimplifiedTab(s, ok) ==
  LET t == TabSettled(s, ok)
  IN IF ok
     THEN Settle(NotificationsCreate(t, SimplifiedNotification(t.cleanKeyword)),
                 "fulfilled")
     ELSE Settle(showErrorNotificationSimplified(t), "fulfilled")

SimplifiedClick(f) ==
  /\ flow[f].pc = "idle"
  /\ f = 1
  /\ \E info \in SimplifiedInfos : Update(f, onClickedSimplified(flow[f], info))

SimplifiedTabSettles(f) ==
  /\ flow[f].pc = "awaitSimplifiedTab"
  /\ \E ok \in BOOLEAN : Update(f, AfterSimplifiedTab(flow[f], ok))

SimplifiedInit ==
  /\ flow = [f \in Slots |-> IdleFlow]
  /\ mode = "simplified"

SimplifiedNext ==
  \/ \E f \in Slots : SimplifiedClick(f)
  \/ \E f \in Slots : SimplifiedTabSettles(f)

SimplifiedSpec == SimplifiedInit /\ [][SimplifiedNext]_vars

\* ---------------------------------------------------------------- observations
Done(s) == s.pc = "done"

\* searchForBibTex was called with a non-empty keyword
Invoked(s) == s.result # "none"

\* URL of the first chrome.tabs.create call of the invocation, "" if none yet
FirstTabUrl(s) == IF s.opens # <<>> THEN s.opens[1].url ELSE s.req

TabRequested(s) == s.opens # <<>> \/ s.req # ""

OpenedOk(s, url) == \E k \in 1..Len(s.opens) : s.opens[k].url = url /\ s.opens[k].ok

OpenFailed(s, url) == \E k \in 1..Len(s.opens) : s.opens[k].url = url /\ ~s.opens[k].ok

NoTabFailed(s) == \A k \in 1..Len(s.opens) : s.opens[k].ok

Shown(s, n) == \E k \in 1..Len(s.notifs) : s.notifs[k] = n

\* the fallback search URL the code builds for the invocation
FallbackUrl(s) == ScholarUrl(s.cleanKeyword)

\* ---------------------------------------------------------------- C1
\* C1: an invocation of searchForBibTex with a non-empty query never throws:
\* whatever the collaborators do, its promise is never rejected.
C1_NeverRejects == \A f \in Slots : flow[f].result # "rejected"

\* ---------------------------------------------------------------- C2
\* C2: the error notification is shown only when the fallback tab could not
\* be opened: never in a run where the fallback tab opened, and always when
\* opening the fallback tab failed.
C2_ErrorOnlyWhenFallbackFails ==
  \A f \in Slots :
    LET s == flow[f]
    IN Done(s) /\ Invoked(s) =>
         /\ OpenedOk(s, FallbackUrl(s)) => ~Shown(s, ErrorNotification)
         /\ OpenFailed(s, FallbackUrl(s)) => Shown(s, ErrorNotification)
         /\ Shown(s, ErrorNotification) => OpenFailed(s, FallbackUrl(s))

\* ---------------------------------------------------------------- C3
HasBibTexEntry(body) ==
  body.json /\ \E k \in 1..Len(body.i) : body.i[k].l = "BibTeX"

\* C3: when the citation response is JSON whose list has an entry labelled
\* "BibTeX" at any position, the URL handed to the tab opener is that entry's
\* URL.
C3_BibTexEntryAnywhere ==
  \A f \in Slots :
    LET s == flow[f]
    IN s.citeRead = "ok" /\ HasBibTexEntry(s.citeText) =>
         \E k \in 1..Len(s.citeText.i) :
           s.citeText.i[k].l = "BibTeX" /\ FirstTabUrl(s) = s.citeText.i[k].u

\* ---------------------------------------------------------------- C4
NoPatternRecognized(body) ==
  /\ body.assign = "none"
  /\ ~body.rArray
  /\ ~body.dataClk
  /\ body.dataHref = <<>>
  /\ body.citeLink = <<>>

\* trimmed, whitespace runs collapsed to one space
WhitespaceNormalized(text) == ReplaceWhitespaceRuns(Trim(text), " ")

\* C4: when the search response has no recognizable pattern, the fallback tab
\* is https://scholar.google.com/scholar?hl=en&q=<Q>, <Q> the percent-encoding
\* of the whitespace-normalized input with spaces as %20.
C4_FallbackUrlPercent20 ==
  \A f \in Slots :
    LET s == flow[f]
    IN s.searchRead = "ok" /\ NoPatternRecognized(s.searchText) =>
         FirstTabUrl(s) =
           "https://scholar.google.com/scholar?hl=en&q="
             \o Join(encodeURIComponent(WhitespaceNormalized(s.info.selectionText)))

\* ---------------------------------------------------------------- C5
AllWhitespace(text) == \A k \in 1..Len(text) : text[k] \in Whitespace

\* the click carries no usable selection or is for another menu item
Discarded(info) ==
  \/ info.menuItemId # "selectcite-search"
  \/ ~info.present
  \/ AllWhitespace(info.selectionText)

\* C5: a click whose selection is absent, empty or whitespace-only, or whose
\* menu item is not selectcite-search, never starts the pipeline: no fetch,
\* no tab, no notification.
C5_EmptyInputIgnored ==
  \A f \in Slots :
    LET s == flow[f]
    IN s.pc # "idle" /\ Discarded(s.info) =>
         /\ s.pc = "ignored"
         /\ ~Invoked(s)
         /\ s.fetches = <<>>
         /\ ~TabRequested(s)
         /\ s.notifs = <<>>

C5_Witness ==
  \E f \in Slots :
    /\ flow[f].pc = "ignored"
    /\ flow[f].info.menuItemId = "selectcite-search"
    /\ flow[f].info.present
    /\ flow[f].info.selectionText = <<" ", " ">>

\* ---------------------------------------------------------------- C6
NoBibTexLink(body) == ~body.json /\ body.anchor = ""

\* C6: when the citation response is neither valid JSON nor has a BibTeX
\* anchor, the URL handed to the tab opener is the citation-endpoint URL that
\* was fetched; once that tab has opened, it is the only tab, the fallback
\* search is not opened and no error notification is shown.
C6_CitePageWhenNoLink ==
  \A f \in Slots :
    LET s == flow[f]
        citeUrl == "https://scholar.google.com/scholar?output=gsb-cite&hl=en&q=info:"
                     \o Join(s.paperId) \o ":scholar.google.com/"
    IN s.citeRead = "ok" /\ NoBibTexLink(s.citeText) =>
         /\ s.fetches[2] = citeUrl
         /\ FirstTabUrl(s) = citeUrl
         /\ s.opens # <<>> /\ s.opens[1].ok =>
              /\ Done(s) /\ s.result = "fulfilled"
              /\ Len(s.opens) = 1
              /\ ~OpenedOk(s, FallbackUrl(s)) /\ ~OpenFailed(s, FallbackUrl(s))
              /\ ~Shown(s, ErrorNotification)

C6_Witness ==
  \E f \in Slots :
    /\ Done(flow[f])
    /\ flow[f].citeRead = "ok"
    /\ NoBibTexLink(flow[f].citeText)
    /\ flow[f].opens = <<[url |-> CiteUrl(flow[f].paperId), ok |-> TRUE]>>
    /\ flow[f].notifs = <<CitePageNotification>>

\* ---------------------------------------------------------------- C7
StripTrailingMarker(id) ==
  IF id # <<>> /\ id[Len(id)] = "#f" THEN SubSeq(id, 1, Len(id) - 1) ELSE id

\* C7: when the search response embeds a well-formed JSON assignment whose
\* path r[0].l.f.u is an identifier, the citation request is for
\* info:<ID>:scholar.google.com/ with <ID> the identifier less its trailing
\* "#f" and otherwise unaltered.
C7_TrailingMarkerOnly ==
  \A f \in Slots :
    LET s == flow[f]
    IN s.searchRead = "ok" /\ s.searchText.assign = "id" =>
         /\ Len(s.fetches) >= 2
         /\ s.fetches[2] =
              "https://scholar.google.com/scholar?output=gsb-cite&hl=en&q=info:"
                \o Join(StripTrailingMarker(s.searchText.u))
                \o ":scholar.google.com/"

\* ---------------------------------------------------------------- C8
\* C8: a completed invocation in which no tab-open request failed has opened
\* exactly one tab and shown exactly one notification.
C8_OneTabOneNotification ==
  \A f \in Slots :
    LET s == flow[f]
    IN Done(s) /\ Invoked(s) /\ NoTabFailed(s) =>
         Len(s.opens) = 1 /\ Len(s.notifs) = 1

C8_Witness ==
  \E f \in Slots :
    /\ Done(flow[f])
    /\ flow[f].citeText.json
    /\ flow[f].citeText.i # <<>>
    /\ Len(flow[f].opens) = 1
    /\ flow[f].opens[1].ok
    /\ flow[f].opens[1].url = flow[f].citeText.i[1].u
    /\ flow[f].notifs = <<SuccessNotification>>

\* ---------------------------------------------------------------- C9
\* C9: when every awaited fetch, body read and tab-open request eventually
\* settles, every invocation of searchForBibTex eventually completes.
C9_EventuallyCompletes ==
  \A f \in Slots : (flow[f].result = "pending") ~> Done(flow[f])

C9_Witness ==
  \E f \in Slots :
    /\ Done(flow[f])
    /\ Len(flow[f].fetches) = 2
    /\ Len(flow[f].opens) = 3

\* ---------------------------------------------------------------- C10
AwaitsTab(t) ==
  t.pc \in {"awaitFallbackTab", "awaitJsonTab", "awaitHtmlTab", "awaitCiteTab",
            "awaitCatchTab"}

\* the answers recorded in e hold the one the suspended call t waits for
Answered(t, e) ==
  CASE t.pc = "awaitSearch" -> e.searchStatus # "none"
    [] t.pc = "awaitSearchText" -> e.searchRead # "none"
    [] t.pc = "awaitCiteFetch" -> e.citeStatus # "none"
    [] t.pc = "awaitCiteText" -> e.citeRead # "none"
    [] AwaitsTab(t) -> Len(t.opens) < Len(e.opens)
    [] OTHER -> FALSE

NextTabOk(t, e) == e.opens[Len(t.opens) + 1].ok

ResumeAlone(t, e) ==
  CASE t.pc = "awaitSearch" -> AfterSearchFetch(t, e.searchStatus)
    [] t.pc = "awaitSearchText" -> AfterSearchText(t, e.searchRead, e.searchText)
    [] t.pc = "awaitCiteFetch" -> AfterCiteFetch(t, e.citeStatus)
    [] t.pc = "awaitCiteText" -> AfterCiteText(t, e.citeRead, e.citeText)
    [] t.pc = "awaitFallbackTab" -> AfterFallbackTab(t, NextTabOk(t, e))
    [] t.pc = "awaitJsonTab" -> AfterJsonTab(t, NextTabOk(t, e))
    [] t.pc = "awaitHtmlTab" -> AfterHtmlTab(t, NextTabOk(t, e))
    [] t.pc = "awaitCiteTab" -> AfterCiteTab(t, NextTabOk(t, e))
    [] t.pc = "awaitCatchTab" -> AfterCatchTab(t, NextTabOk(t, e))

RECURSIVE RunAlone(_, _)
RunAlone(t, e) == IF Answered(t, e) THEN RunAlone(ResumeAlone(t, e), e) ELSE t

\* the click of e handled with no other flow around, given the answers e got
Alone(e) == RunAlone(onClicked(IdleFlow, e.info), e)

\* C10: whatever the interleaving, each flow's fetches, opened URLs,
\* notifications and result are those of the same click run alone with the
\* same answers to its own requests.
C10_FlowsIndependent ==
  \A f \in Slots :
    LET s == flow[f]
        a == Alone(s)
    IN s.pc # "idle" =>
         /\ a.fetches = s.fetches
         /\ a.req = s.req
         /\ a.opens = s.opens
         /\ a.notifs = s.notifs
         /\ a.result = s.result

C10_Witness ==
  /\ AwaitsTab(flow[1])
  /\ Done(flow[2])
  /\ flow[1].info.selectionText # flow[2].info.selectionText
  /\ flow[1].req = FallbackUrl(flow[1])
  /\ OpenedOk(flow[2], FallbackUrl(flow[2]))

\* ---------------------------------------------------------------- C11
CiteRequestFailed(s) == s.citeStatus \in {"reject", "notok"}

\* C11: a rejected or non-success citation request is handled like "identifier
\* not found": the fallback search URL is opened and the instructional
\* notification is shown, not the error notification.
C11_CiteFailureIsSoft ==
  \A f \in Slots :
    LET s == flow[f]
    IN Done(s) /\ CiteRequestFailed(s) /\ NoTabFailed(s) =>
         /\ OpenedOk(s, FallbackUrl(s))
         /\ Shown(s, FallbackNotification(s.keyword))
         /\ ~Shown(s, ErrorNotification)

\* ---------------------------------------------------------------- C12
\* no ordered matcher gives an identifier: the embedded assignment is absent
\* or unusable and there is no data-href link
NoMatcherYields(body) == body.assign # "id" /\ body.dataHref = <<>>

\* C12: when none of the four ordered matchers yields an identifier, also
\* when the embedded assignment matches but is malformed or lacks the path,
\* extractPaperIdFromResponse returns the identifier of the citation-info link
\* in the body, and "not found" only when the body has no such link.
C12_FinalScanAlwaysRuns ==
  \A f \in Slots :
    LET s == flow[f]
    IN s.searchRead = "ok" /\ NoMatcherYields(s.searchText) =>
         extractPaperIdFromResponse(s.searchText) =
           IF s.searchText.citeLink # <<>>
           THEN [isNull |-> FALSE, id |-> s.searchText.citeLink, threw |-> FALSE]
           ELSE [isNull |-> TRUE, id |-> <<>>, threw |-> FALSE]

\* ---------------------------------------------------------------- C13
\* C13: the anchor scan runs when JSON parsing fails and also when the body
\* parses but has no entry labelled "BibTeX"; in both cases an anchor whose
\* label is "BibTeX" gets its href opened instead of the citation-endpoint
\* URL.
C13_AnchorScanInBothCases ==
  \A f \in Slots :
    LET s == flow[f]
    IN /\ s.citeRead = "ok"
       /\ s.citeText.anchor # ""
       /\ ~s.citeText.json \/ ~HasBibTexEntry(s.citeText)
       => FirstTabUrl(s) = s.citeText.anchor

\* ---------------------------------------------------------------- C14
\* C14: extractPaperIdFromResponse returns an identifier string or null and
\* never throws; after a successful body read the invocation goes on to the
\* citation request or to the not-found fallback, and a parse failure never
\* leads to the error notification.
C14_ExtractionTotal ==
  \A f \in Slots :
    LET s == flow[f]
        paperId == extractPaperIdFromResponse(s.searchText)
    IN s.searchRead = "ok" =>
         /\ ~paperId.threw
         /\ paperId.isNull => paperId.id = <<>>
         /\ \/ Len(s.fetches) = 2
            \/ /\ FirstTabUrl(s) = FallbackUrl(s)
               /\ s.opens = <<>> => s.pc = "awaitFallbackTab"
               /\ s.opens # <<>> /\ s.opens[1].ok =>
                    s.notifs = <<FallbackNotification(s.keyword)>>

C14_Witness ==
  \E f \in Slots :
    /\ Done(flow[f])
    /\ flow[f].searchRead = "ok"
    /\ flow[f].searchText.assign = "malformed"
    /\ flow[f].opens = <<[url |-> FallbackUrl(flow[f]), ok |-> TRUE]>>
    /\ flow[f].notifs = <<FallbackNotification(flow[f].keyword)>>

\* ---------------------------------------------------------------- C15
\* the fetches of one invocation, as far as one state shows them
FetchesBounded(s) ==
  LET paperId == extractPaperIdFromResponse(s.searchText)
  IN /\ Len(s.fetches) <= 2
     /\ Invoked(s) /\ s.keyword # <<>> => s.fetches # <<>>
     /\ TabRequested(s) => s.fetches # <<>>
     /\ s.fetches # <<>> => s.fetches[1] = SearchUrl(s.cleanKeyword)
     /\ Len(s.fetches) = 2 =>
          /\ s.searchStatus = "ok"
          /\ s.searchRead = "ok"
          /\ ~paperId.isNull /\ paperId.id # <<>>
          /\ s.fetches[2] = CiteUrl(paperId.id)

\* C15: the network calls of one invocation are ordered and bounded: at most
\* two fetches are issued, the search request is the first, the
\* citation-export request is issued only after the search request returned a
\* success status and extraction yielded an identifier, and no step issues a
\* fetch once a tab-open request has been made.
C15_FetchesOrderedAndBounded ==
  /\ [](\A f \in Slots : FetchesBounded(flow[f]))
  /\ [][\A f \in Slots :
          TabRequested(flow[f]) => flow'[f].fetches = flow[f].fetches]_vars

C15_Witness ==
  \E f \in Slots :
    /\ Done(flow[f])
    /\ Len(flow[f].fetches) = 2
    /\ flow[f].searchStatus = "ok"
    /\ Len(flow[f].opens) = 2
    /\ ~flow[f].opens[1].ok
    /\ flow[f].opens[2].ok

\* ---------------------------------------------------------------- C16
\* the plain search URL of a selection: the trimmed selection with every
\* whitespace run collapsed to one space, percent-encoded
PlainSearchUrl(selection) ==
  "https://scholar.google.com/scholar?hl=en&q="
    \o Join(encodeURIComponent(WhitespaceNormalized(selection)))

\* C16: the simplified variant of searchForBibTex always falls back to plain
\* search: for every non-empty query it issues no fetch and requests exactly
\* the plain search URL of the query; when the tab opens it shows the
\* instructional notification; when the tab fails to open it shows the error
\* notification, opens nothing else and does not throw.
C16_SimplifiedAlwaysFallsBack ==
  \A f \in Slots :
    LET s == flow[f]
    IN Invoked(s) =>
         /\ s.fetches = <<>>
         /\ FirstTabUrl(s) = PlainSearchUrl(s.info.selectionText)
         /\ Len(s.opens) <= 1
         /\ s.result # "rejected"
         /\ ~Done(s) => s.notifs = <<>> /\ s.req # ""
         /\ Done(s) =>
              /\ Len(s.opens) = 1 /\ s.req = ""
              /\ s.result = "fulfilled"
              /\ Len(s.notifs) = 1
              /\ s.opens[1].ok =>
                   /\ s.notifs[1].title = "SelectCite"
                   /\ s.notifs[1] =
                        SimplifiedNotification(
                          WhitespaceNormalized(s.info.selectionText))
              /\ ~s.opens[1].ok => s.notifs[1] = ErrorNotification

C16_Witness ==
  \E f \in Slots :
    /\ mode = "simplified"
    /\ Done(flow[f])
    /\ flow[f].info.selectionText = SpacedSelection
    /\ flow[f].opens =
         <<[url |-> "https://scholar.google.com/scholar?hl=en&q=A%20%26",
            ok |-> TRUE]>>
    /\ flow[f].notifs =
         <<[title |-> "SelectCite",
            message |-> "Searching for: \"A &\"\nClick \"Cite\" then \"BibTeX\" for the paper you need."]>>

\* ---------------------------------------------------------------- C17
\* n is the notification that goes with the tab-open request for url in
\* invocation s
Associated(s, n, url) ==
  \/ /\ n = SuccessNotification
     /\ \/ s.citeText.anchor # "" /\ url = s.citeText.anchor
        \/ \E k \in 1..Len(s.citeText.i) :
             s.citeText.i[k].l = "BibTeX" /\ url = s.citeText.i[k].u
  \/ n = CitePageNotification /\ s.paperId # <<>> /\ url = CiteUrl(s.paperId)
  \/ n = FallbackNotification(s.keyword) /\ url = ScholarUrl(s.cleanKeyword)

\* the step of invocation s to t settles its awaited tab-open request with ok
SettlesTab(s, t, ok) ==
  s.req # "" /\ t.opens = Append(s.opens, [url |-> s.req, ok |-> ok])

\* C17: a success notification, a citation-page notification or an
\* instructional fallback notification is shown only by the step in which the
\* tab-open request it goes with completes successfully, so every such
\* notification shown has a successfully opened tab of its URL; the step in
\* which a tab-open request fails shows none of these notifications.
C17_NotificationAfterSuccessfulOpen ==
  /\ [][\A f \in Slots :
          LET s == flow[f]
              t == flow'[f]
          IN /\ t.notifs # s.notifs =>
                  \E n \in {t.notifs[Len(t.notifs)]} :
                     /\ t.notifs = Append(s.notifs, n)
                     /\ n # ErrorNotification =>
                          SettlesTab(s, t, TRUE) /\ Associated(t, n, s.req)
             /\ SettlesTab(s, t, FALSE) =>
                  \A k \in 1..Len(t.notifs) :
                     k > Len(s.notifs) => t.notifs[k] = ErrorNotification]_vars
  /\ [](\A f \in Slots :
          \A k \in 1..Len(flow[f].notifs) :
             flow[f].notifs[k] # ErrorNotification =>
               \E j \in 1..Len(flow[f].opens) :
                  /\ flow[f].opens[j].ok
                  /\ Associated(flow[f], flow[f].notifs[k], flow[f].opens[j].url))

C17_Witness ==
  \E f \in Slots :
    /\ Done(flow[f])
    /\ Len(flow[f].opens) = 2
    /\ ~flow[f].opens[1].ok
    /\ flow[f].citeText.i # <<>>
    /\ flow[f].opens[1].url = flow[f].citeText.i[1].u
    /\ flow[f].opens[2].ok
    /\ flow[f].opens[2].url = flow[f].citeText.anchor
    /\ flow[f].notifs = <<SuccessNotification>>

====
